---- MODULE Spec2Model ----
(***************************************************************************)
(* Model of the audio-driven pacing and ring-buffer engine of web64        *)
(* (src/src/emulator/audio.ts, class N64AudioSystem), together with the    *)
(* environment it runs in: the host audio subsystem that invokes the       *)
(* callback, the simulation core that owns the sample buffer and the       *)
(* write cursor, and the requestAnimationFrame game loop of loader.ts.     *)
(*                                                                         *)
(* Sizes are scaled down: the ring holds RING_BUFFER_SIZE = 8 samples      *)
(* (64000 in the source), a callback consumes AUDIO_BUFFER_SIZE = 2        *)
(* frames (1024) and the catch-up cap MAX_FPS is 2 (90).  Samples are      *)
(* 16-bit integers; a normalised output sample s / 32768 is kept as the    *)
(* record [k |-> "lin", s |-> s], a soft-clipped one tanh(0.9 * s / 32768) *)
(* as [k |-> "tanh", s |-> s], and the NaN a read through a detached view  *)
(* produces as [k |-> "nan", s |-> 0].                                     *)
(***************************************************************************)
EXTENDS Integers, Sequences, FiniteSets, TLC

\* ------------------------------------------------------------------ sizes
RING_BUFFER_SIZE == 8
AUDIO_BUFFER_SIZE == 2
MAX_FPS == 2
BACKOFF_CALLBACKS == 2
INT16_SCALE == 32768
FILL_LOW_PERCENT == 15
CLIP_PERCENT == 95
DEFAULT_VOLUME == 5

\* Bounds of the exploration (not program constants).
MaxFrameCalls == 3
MaxSkipCount == 1
MaxClipCount == 1

\* Volumes are in tenths (5 is 0.5); 15 is outside the documented range.
VolumeInputs == {5, 15}

\* Samples the core may add to the ring in one step (always whole frames).
StepAdvances == {2, 4}

\* Content of the core's ring, by index 0 .. RING_BUFFER_SIZE - 1.
HeapContent == <<100, -100, 32767, -32768, 300, -300, 31130, 400>>

\* A ring of four quiet stereo frames.
QuietContent == <<100, -100, 200, -200, 300, -300, 400, -400>>

\* Samples on both sides of 0.95 * 32768 = 31129.6 and at both ends of the
\* 16-bit range.
BoundaryContent == <<31129, 32767, -31130, -32768, -31129, 31130, 0, -1>>

HeapContents == {HeapContent, QuietContent, BoundaryContent}

\* ------------------------------------------------------ simulation core
\* The shapes of module object initialize() is given: the emulator core with
\* all its exports ("full") and a core without the buffer-address export
\* ("noaddr").  A module with none of the exports, such as the test module of
\* loadTestModule(), behaves in every "this.module?._x" test as no module.
ModuleShapes == {"full", "noaddr"}

HasRunMainLoop(m) == m \in {"full", "noaddr"}

HasGetAudioWritePosition(m) == m \in {"full", "noaddr"}

HasGetSoundBufferAddress(m) == m = "full"

HasHEAP16(m) == m \in {"full", "noaddr"}

VARIABLES
  audioContext,          \* "null" | "suspended" | "running"
  scriptProcessor,       \* TRUE: created, connected, onaudioprocess bound
  orphanProcessors,      \* TRUE: a processor of an earlier initialize() is still connected
  gainNode,              \* TRUE: created
  gain,                  \* gainNode.gain.value in tenths (0 while gainNode is null)
  configVolume,          \* config.volume in tenths
  audioBufferResampled,  \* "null" | "valid" | "detached"
  audioWritePosition,
  audioReadPosition,
  audioThreadLock,
  audioBackOffCounter,
  module,                \* "null" or a module shape
  audioSkipCount,
  clipCount,
  frameCallCount,
  gameFps,
  frameWindowElapsed,    \* performance.now() - lastFrameReset > 1000
  logWindowElapsed,      \* performance.now() - lastAudioTime > 10000
  coreWritePos,          \* the core's write cursor
  heap,                  \* the samples in the core's ring, by index
  pc,                    \* "idle" | "baseline" | "catchup": inside which _runMainLoop() call
  bufferFillLow,         \* the callback's local bufferFill < 0.15
  \* observation of the callback in progress or just completed
  last,                  \* the last operation
  out,                   \* frames the callback wrote to outputLeft / outputRight
  stepsInCb,             \* _runMainLoop() invocations of the callback
  detachedAtEntry,       \* the view was zero-length when the callback was entered
  tornDown,              \* destroy() ran before or during the callback
  reacquired,            \* the callback re-acquired the view
  lowAllWindow,          \* every callback of the accounting window found bufferFill < 0.15
  sinceUnderrun,         \* callbacks entered since the last callback with an underrun (3: none or more)
  windowCatchUps         \* catch-up steps that returned in the accounting window (followed in SpecWindow)

engineVars == <<audioContext, scriptProcessor, orphanProcessors, gainNode, gain,
                configVolume, audioBufferResampled, audioWritePosition,
                audioReadPosition, audioThreadLock, audioBackOffCounter, module,
                audioSkipCount, clipCount, frameCallCount, gameFps>>

envVars == <<frameWindowElapsed, logWindowElapsed, coreWritePos, heap, pc, bufferFillLow>>

obsVars == <<last, out, stepsInCb, detachedAtEntry, tornDown, reacquired,
             lowAllWindow, sinceUnderrun, windowCatchUps>>

vars == <<engineVars, envVars, obsVars>>

\* -------------------------------------------------------------- helpers
Abs(x) == IF x < 0 THEN -x ELSE x

Silence == [k |-> "lin", s |-> 0]

NaN == [k |-> "nan", s |-> 0]

SilentFrame == <<Silence, Silence>>

SilentOutput == [i \in 1..AUDIO_BUFFER_SIZE |-> SilentFrame]

AllSilent(o) == \A i \in 1..Len(o) : o[i] = SilentFrame

\* getBufferFillRatio(): the numerator, distance / RING_BUFFER_SIZE is the ratio
Distance(writePos, readPos) ==
  IF writePos - readPos < 0
    THEN writePos - readPos + RING_BUFFER_SIZE
    ELSE writePos - readPos

\* bufferFill < 0.15, on the ratio distance / RING_BUFFER_SIZE
FillLow(distance) == distance * 100 < FILL_LOW_PERCENT * RING_BUFFER_SIZE

\* variant: the cursor wraps to the right sample of the first frame
AdvanceReadWrapToOne(readPos) ==
  IF readPos + 2 >= RING_BUFFER_SIZE THEN 1 ELSE readPos + 2

\* variant: the wrap test written with > instead of >=
AdvanceReadLateWrap(readPos) ==
  IF readPos + 2 > RING_BUFFER_SIZE THEN 0 ELSE readPos + 2

\* variant: the cursor wraps one frame early
AdvanceReadEarlyWrap(readPos) ==
  IF readPos + 2 >= RING_BUFFER_SIZE - 2 THEN 0 ELSE readPos + 2

\* this.audioReadPosition += 2; if (>= RING_BUFFER_SIZE) this.audioReadPosition = 0
AdvanceRead(readPos) ==
  IF readPos + 2 >= RING_BUFFER_SIZE THEN 0 ELSE readPos + 2

\* variant: both channels read the left sample of the frame
ReadSampleMono(view, i) ==
  IF view = "valid" /\ i \in 0..(RING_BUFFER_SIZE - 1)
    THEN [k |-> "lin", s |-> heap[i - (i % 2) + 1]]
    ELSE NaN

\* this.audioBufferResampled[i] / 32768.0: an index outside a typed array, and any
\* index of a zero-length (detached) one, reads undefined, and undefined / 32768 is NaN
ReadSample(view, i) ==
  IF view = "valid" /\ i \in 0..(RING_BUFFER_SIZE - 1)
    THEN [k |-> "lin", s |-> heap[i + 1]]
    ELSE NaN

\* variant: the threshold is 0.96
ClipsAbove96(x) == x.k = "lin" /\ Abs(x.s) * 100 > (CLIP_PERCENT + 1) * INT16_SCALE

\* Math.abs(x) > 0.95 on x = s / 32768 (false for NaN)
Clips(x) == x.k = "lin" /\ Abs(x.s) * 100 > CLIP_PERCENT * INT16_SCALE

\* if (Math.abs(x) > 0.95) x = Math.tanh(x * 0.9)
SoftClip(x) == IF Clips(x) THEN [k |-> "tanh", s |-> x.s] ELSE x

ClipIncrement(x) == IF Clips(x) THEN 1 ELSE 0

\* variant: the loop does not compare the cursors
FrameAvailableAnyCursor(writePos, readPos, view) == view # "null"

\* variant: the loop does not test that the engine holds a view
FrameAvailableAnyView(writePos, readPos, view) == writePos # readPos

\* the condition of the consumption loop that a frame is read from the ring
FrameAvailable(writePos, readPos, view) == writePos # readPos /\ view # "null"

\* variant: an exhausted frame moves the read cursor on
ConsumeFrameSkipping(st) ==
  IF FrameAvailable(st.wp, st.rp, st.view)
    THEN LET left  == ReadSample(st.view, st.rp)
             right == ReadSample(st.view, st.rp + 1)
         IN [st EXCEPT !.out  = Append(@, <<SoftClip(left), SoftClip(right)>>),
                       !.clip = @ + ClipIncrement(left) + ClipIncrement(right),
                       !.rp   = AdvanceRead(st.rp)]
    ELSE [st EXCEPT !.out   = Append(@, SilentFrame),
                    !.under = TRUE,
                    !.skip  = @ + 1,
                    !.rp    = AdvanceRead(st.rp)]

\* variant: an exhausted frame is emitted as silence without being counted
ConsumeFrameUncounted(st) ==
  IF FrameAvailable(st.wp, st.rp, st.view)
    THEN LET left  == ReadSample(st.view, st.rp)
             right == ReadSample(st.view, st.rp + 1)
         IN [st EXCEPT !.out  = Append(@, <<SoftClip(left), SoftClip(right)>>),
                       !.clip = @ + ClipIncrement(left) + ClipIncrement(right),
                       !.rp   = AdvanceRead(st.rp)]
    ELSE [st EXCEPT !.out   = Append(@, SilentFrame),
                    !.under = TRUE]

\* variant: frames are read only while no frame has been skipped
ConsumeFrameThrottled(st) ==
  IF FrameAvailable(st.wp, st.rp, st.view) /\ st.skip = 0
    THEN LET left  == ReadSample(st.view, st.rp)
             right == ReadSample(st.view, st.rp + 1)
         IN [st EXCEPT !.out  = Append(@, <<SoftClip(left), SoftClip(right)>>),
                       !.clip = @ + ClipIncrement(left) + ClipIncrement(right),
                       !.rp   = AdvanceRead(st.rp)]
    ELSE [st EXCEPT !.out   = Append(@, SilentFrame),
                    !.under = TRUE,
                    !.skip  = @ + 1]

\* one iteration of the consumption loop, on the record
\* [rp, wp, view, skip, clip, under, out]
ConsumeFrame(st) ==
  IF FrameAvailable(st.wp, st.rp, st.view)
    THEN LET left  == ReadSample(st.view, st.rp)
             right == ReadSample(st.view, st.rp + 1)
         IN [st EXCEPT !.out  = Append(@, <<SoftClip(left), SoftClip(right)>>),
                       !.clip = @ + ClipIncrement(left) + ClipIncrement(right),
                       !.rp   = AdvanceRead(st.rp)]
    ELSE [st EXCEPT !.out   = Append(@, SilentFrame),
                    !.under = TRUE,
                    !.skip  = @ + 1]

RECURSIVE ConsumeLoop(_, _)
ConsumeLoop(sample, st) ==
  IF sample >= AUDIO_BUFFER_SIZE
    THEN st
    ELSE ConsumeLoop(sample + 1, ConsumeFrame(st))

\* variant: the detachment check is missing
ReacquiresNever(view, m) == FALSE

\* the view after the detachment check that precedes the consumption loop
Reacquires(view, m) ==
  view = "detached" /\ HasGetSoundBufferAddress(m) /\ HasHEAP16(m)

\* variant: the engine keeps the view it holds
ViewAfterCheckKept(view, m) == view

ViewAfterCheck(view, m) == IF Reacquires(view, m) THEN "valid" ELSE view

\* variant: every pass arms the back-off
BackOffAfterAlways(hadUnderrun, counter) == BACKOFF_CALLBACKS

\* variant: the back-off lasts three callbacks
BackOffAfterThree(hadUnderrun, counter) ==
  IF hadUnderrun /\ counter = 0 THEN BACKOFF_CALLBACKS + 1 ELSE counter

\* variant: the back-off lasts one callback
BackOffAfterOne(hadUnderrun, counter) ==
  IF hadUnderrun /\ counter = 0 THEN 1 ELSE counter

\* if (hadUnderrun && this.audioBackOffCounter === 0) this.audioBackOffCounter = 2
BackOffAfter(hadUnderrun, counter) ==
  IF hadUnderrun /\ counter = 0 THEN BACKOFF_CALLBACKS ELSE counter

\* variant: the engine adds a frame to the position it polls
PolledWritePositionAhead(m, current, corePos) ==
  IF HasGetAudioWritePosition(m) THEN (corePos + 2) % RING_BUFFER_SIZE ELSE current

\* this.audioWritePosition after "if (this.module?._neilGetAudioWritePosition) ..."
PolledWritePosition(m, current, corePos) ==
  IF HasGetAudioWritePosition(m) THEN corePos ELSE current

\* variant: the catch-up step is not capped
CatchUpDueUncapped(fillLow, calls) == fillLow

\* variant: the catch-up step does not look at the fill level
CatchUpDueAnyFill(fillLow, calls) == calls < MAX_FPS

\* variant: the catch-up step is still taken at the cap
CatchUpDueAtCap(fillLow, calls) == fillLow /\ calls <= MAX_FPS

\* bufferFill < 0.15 && this.frameCallCount < 90
CatchUpDue(fillLow, calls) == fillLow /\ calls < MAX_FPS

\* Math.max(0, Math.min(1, volume))
ClampVolume(v) == IF v < 0 THEN 0 ELSE IF v > 10 THEN 10 ELSE v

\* variant: the processor fires only while the context is running
HostConnectedRunning == (scriptProcessor \/ orphanProcessors) /\ audioContext = "running"

\* the host has a connected processor whose onaudioprocess is this engine's callback
HostConnected == scriptProcessor \/ orphanProcessors

\* ---------------------------------------------------------------- state
Init ==
  /\ audioContext = "null"
  /\ scriptProcessor = FALSE
  /\ orphanProcessors = FALSE
  /\ gainNode = FALSE
  /\ gain = 0
  /\ configVolume = DEFAULT_VOLUME
  /\ audioBufferResampled = "null"
  /\ audioWritePosition = 0
  /\ audioReadPosition = 0
  /\ audioThreadLock = FALSE
  /\ audioBackOffCounter = 0
  /\ module = "null"
  /\ audioSkipCount = 0
  /\ clipCount = 0
  /\ frameCallCount = 0
  /\ gameFps = 0
  /\ frameWindowElapsed = FALSE
  /\ logWindowElapsed = FALSE
  /\ coreWritePos = 0
  /\ heap = HeapContent
  /\ pc = "idle"
  /\ bufferFillLow = FALSE
  /\ last = "none"
  /\ out = << >>
  /\ stepsInCb = 0
  /\ detachedAtEntry = FALSE
  /\ tornDown = FALSE
  /\ reacquired = FALSE
  /\ lowAllWindow = TRUE
  /\ sinceUnderrun = 3
  /\ windowCatchUps = 0

\* the observation of a callback is dropped when another operation follows it
ObsClear(op) ==
  /\ last' = op
  /\ out' = << >>
  /\ stepsInCb' = 0
  /\ detachedAtEntry' = FALSE
  /\ tornDown' = FALSE
  /\ reacquired' = FALSE
  /\ UNCHANGED <<lowAllWindow, sinceUnderrun>>

\* what a callback that gets past the guard records when it is entered
ObsEntry ==
  /\ detachedAtEntry' = (audioBufferResampled = "detached")
  /\ tornDown' = (module = "null")

SinceAtEntry == IF sinceUnderrun < 3 THEN sinceUnderrun + 1 ELSE 3

\* ------------------------------------------------------ simulation core
\* step(): the core adds k samples to its ring; growing its memory detaches
\* every view of the old heap
CoreStep(k, grow) ==
  /\ coreWritePos' = (coreWritePos + k) % RING_BUFFER_SIZE
  /\ audioBufferResampled' =
       IF grow /\ audioBufferResampled = "valid" THEN "detached" ELSE audioBufferResampled

\* startGameLoop() of loader.ts: a display-refresh frame steps the core
RafFrame ==
  /\ pc = "idle"
  /\ \E k \in StepAdvances, grow \in BOOLEAN : CoreStep(k, grow)
  /\ ObsClear("other")
  /\ UNCHANGED <<audioContext, scriptProcessor, orphanProcessors, gainNode, gain,
                 configVolume, audioWritePosition, audioReadPosition, audioThreadLock,
                 audioBackOffCounter, module, audioSkipCount, clipCount,
                 frameCallCount, gameFps, frameWindowElapsed, logWindowElapsed,
                 heap, pc, bufferFillLow>>

\* more than 1000 ms have passed since lastFrameReset
FrameWindowElapses ==
  /\ pc = "idle"
  /\ ~frameWindowElapsed
  /\ frameWindowElapsed' = TRUE
  /\ ObsClear("other")
  /\ UNCHANGED <<engineVars, logWindowElapsed, coreWritePos, heap, pc, bufferFillLow>>

\* more than 10000 ms have passed since lastAudioTime
LogWindowElapses ==
  /\ pc = "idle"
  /\ ~logWindowElapsed
  /\ logWindowElapsed' = TRUE
  /\ ObsClear("other")
  /\ UNCHANGED <<engineVars, frameWindowElapsed, coreWritePos, heap, pc, bufferFillLow>>

\* ------------------------------------------------------------ lifecycle
\* initialize(module)
Initialize(m, ctxState) ==
  /\ pc = "idle"
  /\ module' = m
  /\ audioContext' = ctxState
  /\ gainNode' = TRUE
  /\ gain' = configVolume
  /\ audioBufferResampled' =
       IF HasGetSoundBufferAddress(m) THEN "valid" ELSE audioBufferResampled
  /\ orphanProcessors' = (orphanProcessors \/ scriptProcessor)
  /\ scriptProcessor' = TRUE
  /\ ObsClear("initialize")
  /\ UNCHANGED <<configVolume, audioWritePosition, audioReadPosition, audioThreadLock,
                 audioBackOffCounter, audioSkipCount, clipCount, frameCallCount,
                 gameFps, envVars>>

\* variant: destroy() keeps the view
KeptView(view) == view

\* the value destroy() leaves in audioBufferResampled
ReleasedView(view) == "null"

\* destroy(), also when called from inside a _runMainLoop() call of a callback
Destroy ==
  /\ scriptProcessor' = FALSE
  /\ gainNode' = FALSE
  /\ gain' = 0
  /\ audioContext' = "null"
  /\ audioBufferResampled' = ReleasedView(audioBufferResampled)
  /\ module' = "null"
  /\ IF pc = "idle"
       THEN ObsClear("destroy")
       ELSE /\ last' = "destroy"
            /\ tornDown' = TRUE
            /\ UNCHANGED <<out, stepsInCb, detachedAtEntry, reacquired, lowAllWindow,
                           sinceUnderrun>>
  /\ UNCHANGED <<orphanProcessors, configVolume, audioWritePosition, audioReadPosition,
                 audioThreadLock, audioBackOffCounter, audioSkipCount, clipCount,
                 frameCallCount, gameFps, envVars>>

\* resume()
Resume ==
  /\ pc = "idle"
  /\ audioContext' = IF audioContext = "suspended" THEN "running" ELSE audioContext
  /\ ObsClear("other")
  /\ UNCHANGED <<scriptProcessor, orphanProcessors, gainNode, gain, configVolume,
                 audioBufferResampled, audioWritePosition, audioReadPosition,
                 audioThreadLock, audioBackOffCounter, module, audioSkipCount,
                 clipCount, frameCallCount, gameFps, envVars>>

\* setVolume(volume)
SetVolume(v) ==
  /\ pc = "idle"
  /\ gain' = IF gainNode THEN ClampVolume(v) ELSE gain
  /\ configVolume' = IF gainNode THEN v ELSE configVolume
  /\ ObsClear("other")
  /\ UNCHANGED <<audioContext, scriptProcessor, orphanProcessors, gainNode,
                 audioBufferResampled, audioWritePosition, audioReadPosition,
                 audioThreadLock, audioBackOffCounter, module, audioSkipCount,
                 clipCount, frameCallCount, gameFps, envVars>>

\* setMuted(muted)
SetMuted(muted) ==
  /\ pc = "idle"
  /\ gain' = IF gainNode THEN (IF muted THEN 0 ELSE configVolume) ELSE gain
  /\ ObsClear("other")
  /\ UNCHANGED <<audioContext, scriptProcessor, orphanProcessors, gainNode, configVolume,
                 audioBufferResampled, audioWritePosition, audioReadPosition,
                 audioThreadLock, audioBackOffCounter, module, audioSkipCount,
                 clipCount, frameCallCount, gameFps, envVars>>

\* the bufferFill field of getStats(): Math.abs(audioWritePosition - audioReadPosition)
StatsBufferFill(writePos, readPos) == Abs(writePos - readPos)

\* the gameFps field of getStats()
StatsGameFps == gameFps

\* getStats(), getVolume(), getState(): reads only
GetStats ==
  /\ pc = "idle"
  /\ ObsClear("other")
  /\ UNCHANGED <<engineVars, envVars>>

\* ------------------------------------------------------- audio callback
\* variant: the callback does not test the guard
LockIgnored(lock) == FALSE

\* if (this.audioThreadLock) return;
LockTaken(lock) == lock

\* the callbacks one accounting window and one stats window may hold in the model
WithinBounds ==
  /\ frameCallCount < MaxFrameCalls \/ frameWindowElapsed
  /\ (audioSkipCount < MaxSkipCount /\ clipCount < MaxClipCount) \/ logWindowElapsed

\* onAudioProcess() invoked while the guard is held: dropped
AudioProcessDropped ==
  /\ HostConnected
  /\ LockTaken(audioThreadLock)
  /\ last' = "dropped"
  /\ UNCHANGED <<engineVars, envVars, out, stepsInCb, detachedAtEntry, tornDown,
                 reacquired, lowAllWindow, sinceUnderrun>>

\* variant: a back-off callback polls the write position
AudioProcessBackOffPolling ==
  /\ HostConnected
  /\ ~LockTaken(audioThreadLock)
  /\ audioBackOffCounter > 0
  /\ audioBackOffCounter' = audioBackOffCounter - 1
  /\ audioWritePosition' = PolledWritePosition(module, audioWritePosition, coreWritePos)
  /\ audioThreadLock' = FALSE
  /\ last' = "backoff"
  /\ out' = SilentOutput
  /\ stepsInCb' = 0
  /\ ObsEntry
  /\ reacquired' = FALSE
  /\ sinceUnderrun' = SinceAtEntry
  /\ UNCHANGED <<lowAllWindow, audioContext, scriptProcessor, orphanProcessors,
                 gainNode, gain, configVolume, audioBufferResampled,
                 audioReadPosition, module, audioSkipCount, clipCount, frameCallCount,
                 gameFps, envVars>>

\* onAudioProcess() with audioBackOffCounter > 0
AudioProcessBackOff ==
  /\ HostConnected
  /\ ~LockTaken(audioThreadLock)
  /\ audioBackOffCounter > 0
  /\ audioBackOffCounter' = audioBackOffCounter - 1
  /\ audioThreadLock' = FALSE
  /\ last' = "backoff"
  /\ out' = SilentOutput
  /\ stepsInCb' = 0
  /\ ObsEntry
  /\ reacquired' = FALSE
  /\ sinceUnderrun' = SinceAtEntry
  /\ UNCHANGED <<lowAllWindow, audioContext, scriptProcessor, orphanProcessors, gainNode, gain,
                 configVolume, audioBufferResampled, audioWritePosition,
                 audioReadPosition, module, audioSkipCount, clipCount, frameCallCount,
                 gameFps, envVars>>

\* the callback from the detachment check to its return: re-acquisition, the
\* consumption loop, the back-off decision, the stats log and the release of the
\* guard, with wpos the write position polled last, calls the steps counted in
\* the window and steps those of this callback
FinishCallback(wpos, calls, steps, since) ==
  LET view1 == ViewAfterCheck(audioBufferResampled, module)
      res   == ConsumeLoop(0, [rp    |-> audioReadPosition,
                               wp    |-> wpos,
                               view  |-> view1,
                               skip  |-> audioSkipCount,
                               clip  |-> clipCount,
                               under |-> FALSE,
                               out   |-> << >>])
  IN /\ audioBufferResampled' = view1
     /\ audioWritePosition' = wpos
     /\ audioReadPosition' = res.rp
     /\ audioBackOffCounter' = BackOffAfter(res.under, audioBackOffCounter)
     /\ audioSkipCount' = IF logWindowElapsed THEN 0 ELSE res.skip
     /\ clipCount' = IF logWindowElapsed THEN 0 ELSE res.clip
     /\ logWindowElapsed' = FALSE
     /\ frameCallCount' = calls
     /\ audioThreadLock' = FALSE
     /\ pc' = "idle"
     /\ bufferFillLow' = FALSE
     /\ last' = "processed"
     /\ out' = res.out
     /\ stepsInCb' = steps
     /\ reacquired' = Reacquires(audioBufferResampled, module)
     /\ sinceUnderrun' = IF res.under THEN 0 ELSE since

\* variant: the window's step count is not cleared
FrameCallsKept(elapsed, calls) == calls

\* frameCallCount after "if (now - this.lastFrameReset > 1000) { ... }"
FrameCallsAfterReset(elapsed, calls) == IF elapsed THEN 0 ELSE calls

\* gameFps after "if (now - this.lastFrameReset > 1000) { ... }"
GameFpsAfterReset(elapsed, calls, fps) == IF elapsed THEN calls ELSE fps

\* onAudioProcess() with audioBackOffCounter = 0, up to the first _runMainLoop()
\* call, or to its return when the module has no _runMainLoop
AudioProcessStart ==
  /\ HostConnected
  /\ ~LockTaken(audioThreadLock)
  /\ audioBackOffCounter = 0
  /\ WithinBounds
  /\ LET fillLow == FillLow(Distance(audioWritePosition, audioReadPosition))
         calls   == FrameCallsAfterReset(frameWindowElapsed, frameCallCount)
     IN /\ gameFps' = GameFpsAfterReset(frameWindowElapsed, frameCallCount, gameFps)
        /\ frameWindowElapsed' = FALSE
        /\ lowAllWindow' = ((frameWindowElapsed \/ lowAllWindow) /\ fillLow)
        /\ ObsEntry
        /\ IF HasRunMainLoop(module)
             THEN /\ \E k \in StepAdvances, grow \in BOOLEAN : CoreStep(k, grow)
                  /\ pc' = "baseline"
                  /\ audioThreadLock' = TRUE
                  /\ frameCallCount' = calls
                  /\ bufferFillLow' = fillLow
                  /\ last' = "started"
                  /\ out' = << >>
                  /\ stepsInCb' = 1
                  /\ reacquired' = FALSE
                  /\ sinceUnderrun' = SinceAtEntry
                  /\ UNCHANGED <<audioWritePosition, audioReadPosition,
                                 audioBackOffCounter, audioSkipCount, clipCount,
                                 logWindowElapsed>>
             ELSE /\ FinishCallback(
                       PolledWritePosition(module, audioWritePosition, coreWritePos),
                       calls, 0, SinceAtEntry)
                  /\ UNCHANGED coreWritePos
  /\ UNCHANGED <<audioContext, scriptProcessor, orphanProcessors, gainNode, gain,
                 configVolume, module, heap>>

\* the baseline _runMainLoop() returns: count it, poll the write position, and
\* either call _runMainLoop() once more (catch-up) or go on to consume
BaselineReturn ==
  /\ pc = "baseline"
  /\ LET calls == frameCallCount + 1
         wpos  == PolledWritePosition(module, audioWritePosition, coreWritePos)
     IN IF CatchUpDue(bufferFillLow, calls) /\ HasRunMainLoop(module)
          THEN /\ \E k \in StepAdvances, grow \in BOOLEAN : CoreStep(k, grow)
               /\ pc' = "catchup"
               /\ frameCallCount' = calls
               /\ audioWritePosition' = wpos
               /\ last' = "catchup"
               /\ stepsInCb' = 2
               /\ UNCHANGED <<audioReadPosition, audioThreadLock, audioBackOffCounter,
                              audioSkipCount, clipCount, logWindowElapsed,
                              bufferFillLow, out, reacquired, sinceUnderrun>>
          ELSE /\ FinishCallback(wpos, calls, 1, sinceUnderrun)
               /\ UNCHANGED coreWritePos
  /\ UNCHANGED <<audioContext, scriptProcessor, orphanProcessors, gainNode, gain,
                 configVolume, module, gameFps, frameWindowElapsed, heap,
                 detachedAtEntry, tornDown, lowAllWindow>>

\* the catch-up _runMainLoop() returns: count it, poll again and consume
CatchupReturn ==
  /\ pc = "catchup"
  /\ FinishCallback(PolledWritePosition(module, audioWritePosition, coreWritePos),
                    frameCallCount + 1, 2, sinceUnderrun)
  /\ UNCHANGED <<audioContext, scriptProcessor, orphanProcessors, gainNode, gain,
                 configVolume, module, gameFps, frameWindowElapsed, coreWritePos, heap,
                 detachedAtEntry, tornDown, lowAllWindow>>

\* variant: an exception leaves the guard taken
StepThrowsHolding ==
  /\ pc \in {"baseline", "catchup"}
  /\ pc' = "idle"
  /\ bufferFillLow' = FALSE
  /\ last' = "threw"
  /\ UNCHANGED <<audioContext, scriptProcessor, orphanProcessors, gainNode, gain,
                 configVolume, audioBufferResampled, audioWritePosition,
                 audioReadPosition, audioThreadLock, audioBackOffCounter, module,
                 audioSkipCount, clipCount, frameCallCount, gameFps,
                 frameWindowElapsed, logWindowElapsed, coreWritePos, heap, out,
                 stepsInCb, detachedAtEntry, tornDown, reacquired, lowAllWindow,
                 sinceUnderrun>>

\* _runMainLoop() throws: the finally block releases the guard
StepThrows ==
  /\ pc \in {"baseline", "catchup"}
  /\ audioThreadLock' = FALSE
  /\ pc' = "idle"
  /\ bufferFillLow' = FALSE
  /\ last' = "threw"
  /\ UNCHANGED <<audioContext, scriptProcessor, orphanProcessors, gainNode, gain,
                 configVolume, audioBufferResampled, audioWritePosition,
                 audioReadPosition, audioBackOffCounter, module, audioSkipCount,
                 clipCount, frameCallCount, gameFps, frameWindowElapsed,
                 logWindowElapsed, coreWritePos, heap, out, stepsInCb, detachedAtEntry,
                 tornDown, reacquired, lowAllWindow, sinceUnderrun>>

\* -------------------------------------------------------- specification
\* the catch-up steps of the window are not followed
Unfollowed == UNCHANGED windowCatchUps

\* the engine with its environment: lifecycle, host callbacks, core and clock
Next ==
  \/ \E m \in ModuleShapes : Initialize(m, "suspended") /\ Unfollowed
  \/ Destroy /\ Unfollowed
  \/ GetStats /\ Unfollowed
  \/ RafFrame /\ Unfollowed
  \/ FrameWindowElapses /\ Unfollowed
  \/ LogWindowElapses /\ Unfollowed
  \/ AudioProcessDropped /\ Unfollowed
  \/ AudioProcessBackOff /\ Unfollowed
  \/ AudioProcessStart /\ Unfollowed
  \/ BaselineReturn /\ Unfollowed
  \/ CatchupReturn /\ Unfollowed
  \/ StepThrows /\ Unfollowed

Spec == Init /\ [][Next]_vars

\* the engine under its control operations: lifecycle, volume, mute, resume
\* and stats between the host's callbacks, the clock standing still
NextControl ==
  \/ \E m \in ModuleShapes, ctxState \in {"suspended", "running"} : Initialize(m, ctxState) /\ Unfollowed
  \/ Destroy /\ Unfollowed
  \/ Resume /\ Unfollowed
  \/ \E v \in VolumeInputs : SetVolume(v) /\ Unfollowed
  \/ \E muted \in BOOLEAN : SetMuted(muted) /\ Unfollowed
  \/ GetStats /\ Unfollowed
  \/ AudioProcessDropped /\ Unfollowed
  \/ AudioProcessBackOff /\ Unfollowed
  \/ AudioProcessStart /\ Unfollowed
  \/ BaselineReturn /\ Unfollowed
  \/ CatchupReturn /\ Unfollowed
  \/ StepThrows /\ Unfollowed

SpecControl == Init /\ [][NextControl]_vars

\* positions a cursor takes: whole stereo frames
CursorPositions == {p \in 0..(RING_BUFFER_SIZE - 1) : p % 2 = 0}

\* an engine initialized with the emulator core and playing: the cursors
\* anywhere in the ring, the ring holding any of the contents, the view valid
\* or detached by a memory growth, either window elapsed or not
InitPlaying ==
  /\ audioContext = "running"
  /\ scriptProcessor = TRUE
  /\ orphanProcessors = FALSE
  /\ gainNode = TRUE
  /\ gain = DEFAULT_VOLUME
  /\ configVolume = DEFAULT_VOLUME
  /\ audioBufferResampled \in {"valid", "detached"}
  /\ audioWritePosition \in CursorPositions
  /\ audioReadPosition \in CursorPositions
  /\ audioThreadLock = FALSE
  /\ audioBackOffCounter = 0
  /\ module = "full"
  /\ audioSkipCount = 0
  /\ clipCount = 0
  /\ frameCallCount = 0
  /\ gameFps = 0
  /\ frameWindowElapsed \in BOOLEAN
  /\ logWindowElapsed \in BOOLEAN
  /\ coreWritePos \in CursorPositions
  /\ heap \in HeapContents
  /\ pc = "idle"
  /\ bufferFillLow = FALSE
  /\ last = "none"
  /\ out = << >>
  /\ stepsInCb = 0
  /\ detachedAtEntry = FALSE
  /\ tornDown = FALSE
  /\ reacquired = FALSE
  /\ lowAllWindow = TRUE
  /\ sinceUnderrun = 3
  /\ windowCatchUps = 0

\* the host's callbacks on the playing engine
NextPlaying ==
  \/ AudioProcessDropped /\ Unfollowed
  \/ AudioProcessBackOff /\ Unfollowed
  \/ AudioProcessStart /\ Unfollowed
  \/ BaselineReturn /\ Unfollowed
  \/ CatchupReturn /\ Unfollowed
  \/ StepThrows /\ Unfollowed

SpecPlaying == InitPlaying /\ [][NextPlaying]_vars

\* the catch-up steps of a window: cleared where frameCallCount is cleared
WindowCatchUpsAfterReset(elapsed, catchUps) == IF elapsed THEN 0 ELSE catchUps

\* the catch-up steps of a window: one more where the catch-up step is counted
WindowCatchUpsCounted(catchUps) == catchUps + 1

\* the host's callbacks on the playing engine over successive accounting
\* windows, the catch-up steps of each window followed
NextWindow ==
  \/ FrameWindowElapses /\ Unfollowed
  \/ LogWindowElapses /\ Unfollowed
  \/ AudioProcessDropped /\ Unfollowed
  \/ AudioProcessBackOff /\ Unfollowed
  \/ AudioProcessStart
       /\ windowCatchUps' = WindowCatchUpsAfterReset(frameWindowElapsed, windowCatchUps)
  \/ BaselineReturn /\ Unfollowed
  \/ CatchupReturn /\ windowCatchUps' = WindowCatchUpsCounted(windowCatchUps)
  \/ StepThrows /\ Unfollowed

SpecWindow == InitPlaying /\ [][NextWindow]_vars

TypeOK ==
  /\ audioContext \in {"null", "suspended", "running"}
  /\ audioBufferResampled \in {"null", "valid", "detached"}
  /\ module \in ModuleShapes \cup {"null"}
  /\ pc \in {"idle", "baseline", "catchup"}
  /\ audioBackOffCounter \in 0..BACKOFF_CALLBACKS
  /\ coreWritePos \in 0..(RING_BUFFER_SIZE - 1)

\* --------------------------------------------------------------- properties
NoNaN(o) == \A i \in 1..Len(o) : o[i][1].k # "nan" /\ o[i][2].k # "nan"

\* labels of a callback that got past the guard and wrote its output
Completed == {"backoff", "processed"}

\* C1: in every reachable state the read cursor and the engine's write cursor
\* are in [0, RING_BUFFER_SIZE) and the fill level, the forward distance from
\* read to write over RING_BUFFER_SIZE, is in [0, 1]
C1_CursorsInRange ==
  /\ audioReadPosition \in 0..(RING_BUFFER_SIZE - 1)
  /\ audioWritePosition \in 0..(RING_BUFFER_SIZE - 1)
  /\ Distance(audioWritePosition, audioReadPosition) \in 0..RING_BUFFER_SIZE

\* a callback read frames up to the end of the ring and wrapped to index 0,
\* with the write cursor behind it in index order
C1_Witness ==
  /\ last = "processed"
  /\ audioReadPosition = 0
  /\ Len(out) = AUDIO_BUFFER_SIZE
  /\ out[AUDIO_BUFFER_SIZE] # SilentFrame
  /\ audioWritePosition > 0

\* C2: each of the two callbacks that get past the guard after a callback with
\* an underrun writes AUDIO_BUFFER_SIZE silent frames and invokes no step
C2_BackoffEnforced ==
  sinceUnderrun \in {1, 2} =>
    /\ stepsInCb = 0
    /\ last \in {"backoff", "started", "catchup", "processed", "threw"} =>
         (last = "backoff" /\ out = SilentOutput)

\* the second callback after an underrun was silent although the core holds a
\* whole callback of samples ahead of the read cursor
C2_Witness ==
  /\ last = "backoff"
  /\ sinceUnderrun = 2
  /\ audioBackOffCounter = 0
  /\ out = SilentOutput
  /\ audioBufferResampled = "valid"
  /\ Distance(coreWritePos, audioReadPosition) >= 2 * AUDIO_BUFFER_SIZE

\* C3 as stated: a callback whose consumption pass begins with the read cursor
\* on the polled write cursor writes only silence, ends with skipCount higher by
\* AUDIO_BUFFER_SIZE and with the back-off counter at 2
C3_Original ==
  [][(last' = "processed" /\ audioReadPosition = audioWritePosition')
       => /\ out' = SilentOutput
          /\ audioSkipCount' = audioSkipCount + AUDIO_BUFFER_SIZE
          /\ audioBackOffCounter' = BACKOFF_CALLBACKS]_vars

\* C3 amended: as C3, but a callback that finds the stats window elapsed resets
\* skipCount, so skipCount is 0 after it
C3_UnderrunPass ==
  [][(last' = "processed" /\ audioReadPosition = audioWritePosition')
       => /\ out' = SilentOutput
          /\ audioSkipCount' = IF logWindowElapsed
                                 THEN 0
                                 ELSE audioSkipCount + AUDIO_BUFFER_SIZE
          /\ audioBackOffCounter' = BACKOFF_CALLBACKS]_vars

\* a pass over an empty ring, through a valid view, counted and not reset
C3_Witness ==
  /\ last = "processed"
  /\ stepsInCb > 0
  /\ audioBufferResampled = "valid"
  /\ audioReadPosition = audioWritePosition
  /\ out = SilentOutput
  /\ audioSkipCount = AUDIO_BUFFER_SIZE
  /\ audioBackOffCounter = BACKOFF_CALLBACKS

\* C4 as stated: while every callback of the accounting window finds the fill
\* level below 0.15, the steps counted in the window never exceed MAX_FPS
C4_Original == lowAllWindow => frameCallCount <= MAX_FPS

\* C4 amended: the cap stops the catch-up step only; the count of a window
\* passes MAX_FPS by baseline steps alone, so a callback that leaves the count
\* above MAX_FPS has invoked no catch-up step (at most the baseline step), and
\* a catch-up step is only ever in progress with the count below MAX_FPS
C4_CatchUpCapped ==
  /\ pc = "catchup" => frameCallCount < MAX_FPS
  /\ (last = "processed" /\ frameCallCount > MAX_FPS) => stepsInCb <= 1

\* a starved window whose count has passed the cap by a baseline step
C4_Witness ==
  /\ lowAllWindow
  /\ last = "processed"
  /\ frameCallCount > MAX_FPS
  /\ stepsInCb = 1

\* C5: an invocation of the callback made while another is inside a step call
\* returns at once: no step, no output frame, cursors, back-off counter, step
\* count and stats counters unchanged, the guard still held
C5_ReentrantDropped ==
  [][(pc # "idle" /\ last' \in {"dropped", "backoff", "started"})
       => /\ last' = "dropped"
          /\ UNCHANGED <<audioReadPosition, audioWritePosition, audioBackOffCounter,
                         frameCallCount, audioSkipCount, clipCount, coreWritePos,
                         audioBufferResampled, audioThreadLock, out, stepsInCb, pc>>]_vars

\* a second invocation arrived during the baseline step and was dropped
C5_Witness ==
  /\ last = "dropped"
  /\ pc = "baseline"
  /\ audioThreadLock
  /\ stepsInCb = 1

\* C6 as stated: no output frame comes from a read through a zero-length view,
\* and a callback that could not re-acquire the view writes only silence
C6_Original ==
  last = "processed" =>
    /\ NoNaN(out)
    /\ audioBufferResampled = "detached" => out = SilentOutput

\* C7 as stated: a callback entered with a zero-length view re-acquires it
\* before any step invocation, and what it writes is silence
C7_Original ==
  detachedAtEntry =>
    /\ stepsInCb > 0 => reacquired
    /\ last \in Completed => out = SilentOutput

\* C7 amended: a callback entered with a zero-length view does not re-acquire
\* it while its step calls are in progress; a callback that is not a back-off
\* callback re-acquires it after its steps and polls and before its first read,
\* exactly when the address accessor and HEAP16 are available, and then the
\* view is valid and every frame it writes is a sample or silence
C7_Reacquired ==
  detachedAtEntry =>
    /\ pc # "idle" => (~reacquired /\ audioBufferResampled # "valid")
    /\ last = "backoff" => ~reacquired
    /\ last = "processed" =>
         /\ reacquired <=> (HasGetSoundBufferAddress(module) /\ HasHEAP16(module))
         /\ reacquired => (audioBufferResampled = "valid" /\ NoNaN(out))
         /\ Len(out) = AUDIO_BUFFER_SIZE

\* a callback entered with a detached view re-acquired it and played samples
C7_Witness ==
  /\ last = "processed"
  /\ detachedAtEntry
  /\ reacquired
  /\ ~AllSilent(out)

\* C8: a callback in flight when destroy() ran, or entered after destroy()
\* returned, writes only silence
C8_TornDownSilent ==
  (tornDown /\ last \in Completed) => out = SilentOutput

\* destroy() ran inside the baseline step of a callback that had polled a
\* write cursor ahead of the read cursor
C8_Witness ==
  /\ tornDown
  /\ last = "processed"
  /\ stepsInCb = 1
  /\ audioWritePosition # audioReadPosition
  /\ out = SilentOutput

\* C9 as stated: when destroy() returns the processor is disconnected, the view
\* released and the cursors cleared, so a cursor that was not 0 before the
\* teardown no longer holds its value
C9_Original ==
  [][last' = "destroy"
       => /\ ~scriptProcessor'
          /\ audioBufferResampled' = "null"
          /\ audioReadPosition # 0 => audioReadPosition' # audioReadPosition
          /\ audioWritePosition # 0 => audioWritePosition' # audioWritePosition]_vars

\* C10 as stated: when initialize() completes the read cursor and the back-off
\* counter are 0
C10_Original ==
  last = "initialize" =>
    /\ audioReadPosition = 0
    /\ audioBackOffCounter = 0

\* C11 as stated: while the module the engine was initialized with does not
\* expose the buffer-address accessor, no callback is registered and the engine
\* is never inside a step of the simulation
C11_Original ==
  (module # "null" /\ ~HasGetSoundBufferAddress(module)) =>
    /\ ~scriptProcessor
    /\ pc = "idle"

\* the two frames the round trip expects: (100, -100) and (200, -200) over 32768
RoundTripOutput ==
  << <<[k |-> "lin", s |-> 100], [k |-> "lin", s |-> -100]>>,
     <<[k |-> "lin", s |-> 200], [k |-> "lin", s |-> -200]>> >>

\* C12 as stated: with the ring holding [100, -100, 200, -200, 300, -300, 400,
\* -400], the write cursor at 0 and the read cursor at 0, a pass of 2 frames
\* writes (100, -100), (200, -200) over 32768 and leaves the read cursor at 4
C12_Original ==
  [][(last' = "processed" /\ heap = QuietContent /\ audioBufferResampled' = "valid"
        /\ audioReadPosition = 0 /\ audioWritePosition' = 0)
       => (out' = RoundTripOutput /\ audioReadPosition' = 4)]_vars

\* C12 amended: the pass yields those two frames and leaves the read cursor at 4
\* when the write cursor is at least two frames ahead of the read cursor (at 4
\* or 6); with the write cursor at 0, equal to the read cursor, the ring counts
\* as empty: the pass writes two silent frames and the read cursor stays at 0
C12_RoundTrip ==
  [][(last' = "processed" /\ heap = QuietContent /\ audioBufferResampled' = "valid"
        /\ audioReadPosition = 0)
       => /\ audioWritePosition' \in {4, 6}
             => (out' = RoundTripOutput /\ audioReadPosition' = 4)
          /\ audioWritePosition' = 0
             => (out' = SilentOutput /\ audioReadPosition' = 0)]_vars

\* the round trip happened: two quiet frames played from index 0
C12_Witness ==
  /\ last = "processed"
  /\ heap = QuietContent
  /\ audioBufferResampled = "valid"
  /\ out = RoundTripOutput
  /\ audioReadPosition = 4
  /\ audioWritePosition = 4

C15_CountersUnread ==
  [][/\ (pc = "baseline" /\ last' \in {"catchup", "processed"}) =>
          ((last' = "catchup")
             = (bufferFillLow /\ frameCallCount + 1 < MAX_FPS /\ HasRunMainLoop(module)))
     /\ last' = "processed" =>
          LET r0 == ConsumeLoop(0, [rp    |-> audioReadPosition,
                                    wp    |-> audioWritePosition',
                                    view  |-> audioBufferResampled',
                                    skip  |-> 0,
                                    clip  |-> 0,
                                    under |-> FALSE,
                                    out   |-> << >>])
          IN /\ out' = r0.out
             /\ audioReadPosition' = r0.rp
             /\ audioBackOffCounter' = BackOffAfter(r0.under, audioBackOffCounter)]_vars

\* a callback with both counters above 0 has taken the catch-up step
C15_Witness ==
  /\ pc = "catchup"
  /\ stepsInCb = 2
  /\ audioSkipCount > 0
  /\ clipCount > 0

\* C16 as stated: the fill getStats() reports is the forward distance from the
\* read cursor to the write cursor, for every pair of cursor positions
C16_Original ==
  StatsBufferFill(audioWritePosition, audioReadPosition)
    = Distance(audioWritePosition, audioReadPosition)

\* C17 as stated: on an initialized engine the linear gain applied to the
\* output is in [0.0, 1.0] after any sequence of setVolume and setMuted calls
C17_Original == gainNode => gain \in 0..10

\* frames of a pass of AUDIO_BUFFER_SIZE frames that find the read cursor on the
\* write cursor, the pass starting with the cursors at readPos and writePos
ExhaustedFrames(writePos, readPos) ==
  LET buffered == Distance(writePos, readPos) \div 2
  IN IF buffered >= AUDIO_BUFFER_SIZE THEN 0 ELSE AUDIO_BUFFER_SIZE - buffered

\* C18 as stated: a consumption pass raises skipCount by one for each frame on
\* which the read cursor has reached the write cursor and by nothing else, and
\* no other path of the callback changes it
C18_Original ==
  [][/\ (last' = "processed" /\ ~logWindowElapsed) =>
          audioSkipCount' = audioSkipCount
                              + ExhaustedFrames(audioWritePosition', audioReadPosition)
     /\ last' \in {"backoff", "dropped", "started", "catchup", "threw"} =>
          audioSkipCount' = audioSkipCount]_vars

\* C18 amended: a consumption pass raises skipCount by one for each frame it
\* writes as silence: every frame on which the read cursor has reached the
\* write cursor and, when the engine holds no buffer view, every frame of the
\* pass; a pass that finds the stats window elapsed leaves it at 0; no other
\* step changes it
C18_SkipCount ==
  [][/\ last' = "processed" =>
          audioSkipCount' =
            IF logWindowElapsed
              THEN 0
              ELSE audioSkipCount
                     + (IF audioBufferResampled' = "null"
                          THEN AUDIO_BUFFER_SIZE
                          ELSE ExhaustedFrames(audioWritePosition', audioReadPosition))
     /\ last' # "processed" => audioSkipCount' = audioSkipCount]_vars

\* a pass played one buffered frame, ran out on the second and counted it
C18_Witness ==
  /\ last = "processed"
  /\ audioBufferResampled = "valid"
  /\ Len(out) = AUDIO_BUFFER_SIZE
  /\ out[1] # SilentFrame
  /\ out[AUDIO_BUFFER_SIZE] = SilentFrame
  /\ audioSkipCount = 1
  /\ audioBackOffCounter = BACKOFF_CALLBACKS

\* an output sample that is a number in [-1, 1]: s / 32768 with |s| <= 32768, or
\* the hyperbolic tangent of such a value
InUnitRange(x) == x.k \in {"lin", "tanh"} /\ Abs(x.s) <= INT16_SCALE

\* C19 as stated: every sample a callback writes to the left and right output
\* arrays is a number in [-1, 1]
C19_Original ==
  last \in Completed =>
    \A i \in 1..Len(out) : InUnitRange(out[i][1]) /\ InUnitRange(out[i][2])

\* the output of a sample s read from the ring: tanh(0.9 * s / 32768) when
\* |s / 32768| > 0.95, that is when |s| >= 31130, and s / 32768 otherwise
SoftClipped(s) ==
  IF Abs(s) >= 31130 THEN [k |-> "tanh", s |-> s] ELSE [k |-> "lin", s |-> s]

\* frames a pass reads from the ring, the pass starting with the cursors at
\* readPos and writePos
FramesRead(writePos, readPos) == AUDIO_BUFFER_SIZE - ExhaustedFrames(writePos, readPos)

\* C20: each sample a pass reads through a valid view is written as
\* tanh(0.9 * x) when |x| > 0.95 and as x otherwise, x being the sample over
\* 32768, and clipCount rises by one for each sample written as tanh, left and
\* right counted separately (a pass that finds the stats window elapsed leaves
\* it at 0)
C20_SoftClip ==
  [][(last' = "processed" /\ audioBufferResampled' = "valid") =>
       LET read    == 1..FramesRead(audioWritePosition', audioReadPosition)
           At(i)   == (audioReadPosition + 2 * (i - 1)) % RING_BUFFER_SIZE
           clipped == {ic \in read \X {1, 2} :
                         Abs(heap[At(ic[1]) + ic[2]]) >= 31130}
       IN /\ \A i \in read :
               /\ out'[i][1] = SoftClipped(heap[At(i) + 1])
               /\ out'[i][2] = SoftClipped(heap[At(i) + 2])
          /\ clipCount' = IF logWindowElapsed
                            THEN 0
                            ELSE clipCount + Cardinality(clipped)]_vars

\* a pass played 31129 unchanged and 32767, -31130 and -32768 through tanh,
\* 32767 as tanh(0.9 * 32767 / 32768), and counted three clipped samples
C20_Witness ==
  /\ last = "processed"
  /\ heap = BoundaryContent
  /\ out = << <<[k |-> "lin", s |-> 31129], [k |-> "tanh", s |-> 32767]>>,
              <<[k |-> "tanh", s |-> -31130], [k |-> "tanh", s |-> -32768]>> >>
  /\ clipCount = 3

\* C21: the read cursor changes only in the step that runs the consumption
\* loop, and then by whole frames, at most AUDIO_BUFFER_SIZE of them; the
\* engine's write cursor changes only by taking the position polled from the
\* core; setVolume, setMuted, getVolume, getStats and resume, as well as
\* initialize, destroy, a dropped invocation and a step that throws, leave the
\* read cursor, the write cursor and the back-off counter unchanged, and a pass
\* that re-acquires the view moves the read cursor as far as the same pass
\* through a valid view
C21_CursorOwnership ==
  [][/\ audioReadPosition' # audioReadPosition =>
          /\ last' = "processed"
          /\ \E frames \in 1..AUDIO_BUFFER_SIZE :
               audioReadPosition' = (audioReadPosition + 2 * frames) % RING_BUFFER_SIZE
     /\ audioWritePosition' # audioWritePosition =>
          /\ last' \in {"catchup", "processed"}
          /\ HasGetAudioWritePosition(module)
          /\ audioWritePosition' = coreWritePos
     /\ last' \in {"other", "initialize", "destroy", "dropped", "threw"} =>
          UNCHANGED <<audioReadPosition, audioWritePosition, audioBackOffCounter>>
     /\ (last' = "processed" /\ reacquired') =>
          Distance(audioReadPosition', audioReadPosition)
            = IF Distance(audioWritePosition', audioReadPosition) >= 2 * AUDIO_BUFFER_SIZE
                THEN 2 * AUDIO_BUFFER_SIZE
                ELSE Distance(audioWritePosition', audioReadPosition)]_vars

\* a control operation ran on an engine in the middle of a back-off, with the
\* cursors apart and away from 0, after an out-of-range setVolume
C21_Witness ==
  /\ last = "other"
  /\ configVolume = 15
  /\ gain = 0
  /\ audioContext = "running"
  /\ audioBackOffCounter = 1
  /\ audioReadPosition > 0
  /\ audioWritePosition # audioReadPosition

\* C22: every invocation of the core's step function happens inside an audio
\* callback that passed the re-entrancy guard and the back-off, so the core's
\* write cursor advances only in a step of such a callback
C22_Original ==
  [][coreWritePos' # coreWritePos => last' \in {"started", "catchup"}]_vars

\* C23: a pass that finds the view detached and re-acquires it reads the frames
\* that start at the read cursor left by the previous pass, in ring order, none
\* skipped and none repeated, and advances the read cursor past exactly the
\* frames it read; the re-acquisition itself changes neither cursor, the
\* back-off counter nor the counters: the write cursor is the polled one, and
\* skipCount and the back-off counter change only by the frames the pass found
\* exhausted
C23_DetachmentKeepsFrames ==
  [][(last' = "processed" /\ reacquired') =>
       LET frames == FramesRead(audioWritePosition', audioReadPosition)
           missed == ExhaustedFrames(audioWritePosition', audioReadPosition)
           At(i)  == (audioReadPosition + 2 * (i - 1)) % RING_BUFFER_SIZE
       IN /\ audioBufferResampled = "detached"
          /\ audioBufferResampled' = "valid"
          /\ \A i \in 1..frames :
               out'[i] = <<SoftClipped(heap[At(i) + 1]), SoftClipped(heap[At(i) + 2])>>
          /\ \A i \in (frames + 1)..AUDIO_BUFFER_SIZE : out'[i] = SilentFrame
          /\ audioReadPosition' = (audioReadPosition + 2 * frames) % RING_BUFFER_SIZE
          /\ audioWritePosition' = coreWritePos
          /\ audioSkipCount' = IF logWindowElapsed THEN 0 ELSE audioSkipCount + missed
          /\ audioBackOffCounter' = IF missed > 0 THEN BACKOFF_CALLBACKS ELSE 0]_vars

\* the core grew its memory during the catch-up step of a callback; the pass
\* re-acquired the view and played the two frames buffered from index 6,
\* wrapping to index 0
C23_Witness ==
  /\ last = "processed"
  /\ reacquired
  /\ ~detachedAtEntry
  /\ stepsInCb = 2
  /\ heap = QuietContent
  /\ out = << <<[k |-> "lin", s |-> 400], [k |-> "lin", s |-> -400]>>,
              <<[k |-> "lin", s |-> 100], [k |-> "lin", s |-> -100]>> >>
  /\ audioReadPosition = 2

\* C24: whether a callback is dropped, backs off or runs the normal path is
\* decided by the connected processor, the guard and the back-off counter, the
\* same while the context is suspended as while it is running; no step of a
\* callback changes the state of the context; resume() changes nothing but the
\* state of a suspended context, which becomes running, so the callback that
\* follows it finds the engine state the callback before it would have found;
\* and the normal path steps the core once on entry whatever the context state
C24_PacingIgnoresContext ==
  /\ [](/\ ENABLED AudioProcessDropped
             <=> ((scriptProcessor \/ orphanProcessors) /\ audioThreadLock)
        /\ ENABLED AudioProcessBackOff
             <=> /\ scriptProcessor \/ orphanProcessors
                 /\ ~audioThreadLock
                 /\ audioBackOffCounter > 0
        /\ ENABLED AudioProcessStart
             <=> /\ scriptProcessor \/ orphanProcessors
                 /\ ~audioThreadLock
                 /\ audioBackOffCounter = 0
                 /\ WithinBounds)
  /\ [][/\ last' \in {"dropped", "backoff", "started", "catchup", "processed", "threw"}
             => audioContext' = audioContext
        /\ (last' = "started" /\ audioContext \in {"suspended", "running"})
             => /\ stepsInCb' = 1
                /\ bufferFillLow' = FillLow(Distance(audioWritePosition, audioReadPosition))
        /\ (last' = "other" /\ audioContext' # audioContext)
             => /\ audioContext = "suspended"
                /\ audioContext' = "running"
                /\ UNCHANGED <<scriptProcessor, orphanProcessors, gainNode, gain,
                               configVolume, audioBufferResampled, audioWritePosition,
                               audioReadPosition, audioThreadLock, audioBackOffCounter,
                               module, audioSkipCount, clipCount, frameCallCount,
                               gameFps, envVars>>]_vars

\* a callback ran the normal path with a catch-up step and played a buffered
\* frame while the context was still suspended
C24_Witness ==
  /\ audioContext = "suspended"
  /\ last = "processed"
  /\ stepsInCb = 2
  /\ out[1] # SilentFrame
  /\ audioReadPosition # 0

\* C25: the fill level that decides the catch-up step of a callback is computed
\* on entry, before the baseline step, from the read cursor and the write cursor
\* of the core as it stands at that moment
C25_Original ==
  [][last' = "started" =>
       bufferFillLow' = FillLow(Distance(coreWritePos, audioReadPosition))]_vars

\* C26: the gameFps that getStats() reports changes only when a callback past
\* the guard and the back-off finds the accounting window elapsed, and then
\* becomes the number of steps counted in the window that ends, 0 until a first
\* window has ended; frameCallCount is cleared in that step and in no other, and
\* otherwise rises by one with each step that returns and is left alone by
\* every other step
C26_StepsPerSecond ==
  [][LET entered  == pc = "idle" /\ last' \in {"started", "processed"}
         returned == pc \in {"baseline", "catchup"} /\ last' \in {"catchup", "processed"}
     IN /\ last = "none" => StatsGameFps = 0
        /\ IF entered /\ frameWindowElapsed
             THEN /\ StatsGameFps' = frameCallCount
                  /\ frameCallCount' = 0
                  /\ ~frameWindowElapsed'
             ELSE /\ StatsGameFps' = StatsGameFps
                  /\ frameCallCount' = IF returned THEN frameCallCount + 1
                                                   ELSE frameCallCount]_vars

\* getStats() reports the two steps counted in a window that has ended, while
\* the window that followed has counted one
C26_Witness ==
  /\ last = "other"
  /\ StatsGameFps = 2
  /\ frameCallCount = 1
  /\ ~frameWindowElapsed

\* C27: audioBackOffCounter is 0, 1 or 2; it rises only from 0 to 2, in the
\* step that ends a consumption pass with an underrun; it falls only by 1, in a
\* back-off callback; a positive counter is never raised
C27_BackOffCounter ==
  [][/\ audioBackOffCounter \in 0..BACKOFF_CALLBACKS
     /\ audioBackOffCounter' \in 0..BACKOFF_CALLBACKS
     /\ audioBackOffCounter' > audioBackOffCounter =>
          /\ audioBackOffCounter = 0
          /\ audioBackOffCounter' = BACKOFF_CALLBACKS
          /\ last' = "processed"
          /\ sinceUnderrun' = 0
          /\ \E i \in 1..AUDIO_BUFFER_SIZE : out'[i] = SilentFrame
     /\ (last' = "processed" /\ sinceUnderrun' = 0) =>
          audioBackOffCounter' = BACKOFF_CALLBACKS
     /\ audioBackOffCounter' < audioBackOffCounter =>
          /\ audioBackOffCounter' = audioBackOffCounter - 1
          /\ last' = "backoff"
     /\ last' = "backoff" => audioBackOffCounter' = audioBackOffCounter - 1]_vars

\* the first back-off callback after an underrun took the counter from 2 to 1
C27_Witness ==
  /\ last = "backoff"
  /\ audioBackOffCounter = 1
  /\ sinceUnderrun = 1
  /\ out = SilentOutput

C29_GuardReleased ==
  [][/\ audioThreadLock <=> pc # "idle"
     /\ audioThreadLock' <=> pc' # "idle"
     /\ last' \in {"backoff", "processed", "threw"} => (~audioThreadLock' /\ pc' = "idle")
     /\ last' \in {"started", "catchup"} => audioThreadLock'
     /\ last' = "dropped" => (audioThreadLock /\ audioThreadLock' /\ pc' = pc)]_vars

\* the catch-up step of a callback threw and the guard is free again
C29_Witness ==
  /\ last = "threw"
  /\ stepsInCb = 2
  /\ ~audioThreadLock
  /\ pc = "idle"
  /\ frameCallCount = 1

\* C30: a consumption pass does not move the read cursor past the polled write
\* cursor: the frames it reads and the frames it leaves buffered add up to the
\* frames buffered between the read cursor and the write cursor when the pass
\* began, and every frame it writes beyond those is silence
C30_ReadWithinWritten ==
  [][last' = "processed" =>
       LET buffered == Distance(audioWritePosition', audioReadPosition)
           moved    == Distance(audioReadPosition', audioReadPosition)
       IN /\ audioWritePosition' % 2 = 0
          /\ moved <= buffered
          /\ moved + Distance(audioWritePosition', audioReadPosition') = buffered
          /\ moved <= 2 * AUDIO_BUFFER_SIZE
          /\ \A i \in 1..AUDIO_BUFFER_SIZE :
               2 * i > buffered => out'[i] = SilentFrame]_vars

\* a pass began with one frame buffered at the end of the ring, played it,
\* stopped on the write cursor at index 0 and filled the rest with silence
C30_Witness ==
  /\ last = "processed"
  /\ audioBufferResampled = "valid"
  /\ audioReadPosition = 0
  /\ audioWritePosition = 0
  /\ out[1] = <<[k |-> "tanh", s |-> 31130], [k |-> "lin", s |-> 400]>>
  /\ out[AUDIO_BUFFER_SIZE] = SilentFrame

\* C31: in one consumption pass a frame written as silence for want of a
\* buffered frame is followed by silence only, so the pass writes the buffered
\* frames first and silence after them; a pass that had an underrun and holds a
\* view ends with the read cursor on the write cursor
C31_SilenceToTheEnd ==
  [][last' = "processed" =>
       LET buffered == Distance(audioWritePosition', audioReadPosition) \div 2
           missed   == {i \in 1..AUDIO_BUFFER_SIZE :
                          i > buffered \/ audioBufferResampled' = "null"}
       IN /\ \A i \in missed : out'[i] = SilentFrame
          /\ \A i \in 1..AUDIO_BUFFER_SIZE : \A j \in i..AUDIO_BUFFER_SIZE :
               out'[i] = SilentFrame => out'[j] = SilentFrame
          /\ \A i \in (1..AUDIO_BUFFER_SIZE) \ missed : out'[i] # SilentFrame
          /\ (sinceUnderrun' = 0) <=> (missed # {})
          /\ (missed # {} /\ audioBufferResampled' # "null") =>
               audioReadPosition' = audioWritePosition']_vars

\* a pass played the one quiet frame buffered at index 4, wrote silence for the
\* second frame and stopped with both cursors at 6
C31_Witness ==
  /\ last = "processed"
  /\ heap = QuietContent
  /\ audioBufferResampled = "valid"
  /\ out = << <<[k |-> "lin", s |-> 300], [k |-> "lin", s |-> -300]>>, SilentFrame >>
  /\ audioReadPosition = 6
  /\ audioWritePosition = 6
  /\ sinceUnderrun = 0

\* C32: the read cursor is an even index no greater than RING_BUFFER_SIZE - 2,
\* so the two indices of the frame it points at, audioReadPosition and
\* audioReadPosition + 1, are inside the ring
C32_ReadCursorEven ==
  /\ audioReadPosition % 2 = 0
  /\ audioReadPosition <= RING_BUFFER_SIZE - 2
  /\ {audioReadPosition, audioReadPosition + 1} \subseteq 0..(RING_BUFFER_SIZE - 1)

\* a pass read two frames and left the read cursor on the last frame of the
\* ring, the write cursor having wrapped to index 0
C32_Witness ==
  /\ last = "processed"
  /\ audioReadPosition = RING_BUFFER_SIZE - 2
  /\ audioWritePosition = 0
  /\ out[1] # SilentFrame
  /\ out[AUDIO_BUFFER_SIZE] # SilentFrame

\* C34: a back-off callback takes one from audioBackOffCounter and writes
\* AUDIO_BUFFER_SIZE silent frames; it leaves the read cursor, the engine's write
\* cursor, frameCallCount, gameFps, audioSkipCount and clipCount as they were,
\* steps nothing, does not poll the core's write position even when the core
\* has moved on, does not look at the clock and does not re-acquire a detached
\* view
C34_BackOffFrame ==
  [][last' = "backoff" =>
       /\ audioBackOffCounter' = audioBackOffCounter - 1
       /\ out' = SilentOutput
       /\ stepsInCb' = 0
       /\ ~reacquired'
       /\ UNCHANGED <<audioReadPosition, audioWritePosition, frameCallCount, gameFps,
                      audioSkipCount, clipCount, audioBufferResampled, coreWritePos,
                      frameWindowElapsed, logWindowElapsed, audioThreadLock, module,
                      gain, configVolume, audioContext, pc>>]_vars

\* a back-off callback returned with the view detached, both windows elapsed
\* and the core's write position ahead of the one the engine holds
C34_Witness ==
  /\ last = "backoff"
  /\ audioBufferResampled = "detached"
  /\ coreWritePos # audioWritePosition
  /\ frameWindowElapsed
  /\ logWindowElapsed
  /\ frameCallCount > 0
  /\ audioSkipCount > 0

\* C35 as stated: on an initialized engine the volume getVolume() returns
\* changes only to the value passed to setVolume(), which puts that volume,
\* clamped to [0.0, 1.0], in effect; setMuted(true) takes the gain to 0 and
\* leaves that volume alone; setMuted(false) on a muted engine brings the gain
\* back to the volume that was in effect before the muting
C35_Original ==
  [][(gainNode /\ gainNode' /\ last' = "other") =>
       /\ configVolume' # configVolume =>
            (configVolume' \in VolumeInputs /\ gain' = ClampVolume(configVolume'))
       /\ (gain # 0 /\ gain' = 0) => configVolume' = configVolume
       /\ (gain = 0 /\ gain' # 0 /\ configVolume' = configVolume) =>
            gain' = ClampVolume(configVolume)]_vars


====
